---- MODULE Spec2Model ----
(***************************************************************************)
(* Model of app.py: a Telegram bot that stores one pending image per user, *)
(* asks for an identifier and uploads the image to imgbb, falling back to  *)
(* Telegraph.  One chat session (context.user_data) is modelled; updates   *)
(* are handled one after the other, as Application.builder().build() does  *)
(* by default (build_app).                                                 *)
(*                                                                         *)
(* Abstractions.  Image bytes are not modelled byte by byte: a received    *)
(* image is its length, whether PIL can decode it, and the length PIL      *)
(* produces for every encoding the program asks for (the codec is a        *)
(* library, so these lengths are free inputs).  An exception message is    *)
(* the set of substrings the retry classifier looks for that occur in it.  *)
(* Replies are assumed to be delivered (reply_text does not raise).        *)
(***************************************************************************)
EXTENDS Integers, Sequences, FiniteSets, TLC

\* ---------------------------------------------------------------- bounds
MaxTextLen == 2        \* texts are all strings over Alphabet up to this length
MaxAttempts == 3       \* largest max_attempts the retry harness passes

\* ------------------------------------------------------- program constants
IMGBB_MAX_BYTES == 32 * 1024 * 1024
TELEGRAPH_MAX_BYTES == 5 * 1024 * 1024
MAX_SIDE_PX == 1600
JPEG_QUALITY == 75
ID_MIN_LEN == 2
ID_MAX_LEN == 64
\* mutant: one more attempt
HANDLE_ID_MAX_ATTEMPTS_three == 2 + 1
HANDLE_ID_MAX_ATTEMPTS == 2
BACKOFF_BASE_S == 2

\* ------------------------------------------------------------ identifiers
\* Characters are one-character strings; a text is a sequence of them.
Whitespace == {" "}
IdChars == {"a", "-"}          \* samples of the class [A-Za-z0-9_-]
Alphabet == {"a", " ", "!"}

Rep(c, n) == [i \in 1..n |-> c]

RECURSIVE SeqsUpTo(_, _)
SeqsUpTo(S, n) ==
    IF n = 0 THEN {<<>>}
    ELSE LET shorter == SeqsUpTo(S, n - 1)
         IN shorter \cup {Append(s, c) : s \in {t \in shorter : Len(t) = n - 1}, c \in S}

\* the message texts the model delivers: every short string, and two long
\* ones on either side of the length limit of ID_RE
Texts == SeqsUpTo(Alphabet, MaxTextLen)
           \cup {Rep("a", ID_MAX_LEN), Rep("a", ID_MAX_LEN + 1)}

RECURSIVE LStrip(_)
LStrip(s) == IF s # <<>> /\ Head(s) \in Whitespace THEN LStrip(Tail(s)) ELSE s

RECURSIVE RStrip(_)
RStrip(s) ==
    IF s # <<>> /\ s[Len(s)] \in Whitespace THEN RStrip(SubSeq(s, 1, Len(s) - 1)) ELSE s

Strip(s) == RStrip(LStrip(s))

ID_RE(s) ==
    /\ Len(s) >= ID_MIN_LEN
    /\ Len(s) <= ID_MAX_LEN
    /\ \A i \in 1..Len(s) : s[i] \in IdChars

\* Python's None for the identifier; a string ID_RE matches is never empty
NoId == <<>>

\* mutant: the match is not checked
sanitize_id_unchecked(s) == Strip(s)

sanitize_id(s) == IF ID_RE(Strip(s)) THEN Strip(s) ELSE NoId

\* ------------------------------------------------------------------ images
JpegCand(side, q) == [fmt |-> "jpg", max_side |-> side, quality |-> q]
PngCand(side) == [fmt |-> "png", max_side |-> side, quality |-> 0]

PrimaryCand == JpegCand(MAX_SIDE_PX, JPEG_QUALITY)
TighterQualities == <<70, 65, 60, 55>>
TighterCands == [i \in 1..4 |-> JpegCand(1400, TighterQualities[i])]
LastCand == PngCand(1200)
Cands == {PrimaryCand, LastCand} \cup {TighterCands[i] : i \in 1..4}

\* lengths an encoding can have: on either side of each provider's ceiling
PrimarySizes == {TELEGRAPH_MAX_BYTES, TELEGRAPH_MAX_BYTES + 1,
                 IMGBB_MAX_BYTES, IMGBB_MAX_BYTES + 1}
TighterSizes == {TELEGRAPH_MAX_BYTES, TELEGRAPH_MAX_BYTES + 1}

CandSizes(c) == IF c = PrimaryCand THEN PrimarySizes ELSE TighterSizes

\* the value of context.user_data.get("pending_image") when the key is absent
NoImage == [len |-> 0, ok |-> FALSE, size |-> [c \in Cands |-> 0]]

\* images Telegram can deliver (a file is never empty).  An image that is
\* stored has a length within IMGBB_MAX_BYTES; the ones above it differ in
\* nothing the program reads before it rejects them.
DecodableImages ==
    {[len |-> IMGBB_MAX_BYTES, ok |-> TRUE, size |-> f] :
        f \in {g \in [Cands -> PrimarySizes] : \A c \in Cands : g[c] \in CandSizes(c)}}
CorruptImage == [len |-> IMGBB_MAX_BYTES, ok |-> FALSE, size |-> [c \in Cands |-> 0]]
OversizedImages ==
    {[len |-> IMGBB_MAX_BYTES + 1, ok |-> TRUE, size |-> [c \in Cands |-> TELEGRAPH_MAX_BYTES]],
     [CorruptImage EXCEPT !.len = IMGBB_MAX_BYTES + 1]}
InputImages == DecodableImages \cup {CorruptImage} \cup OversizedImages

\* an encoded buffer: which encoding it is, and its length
NoBytes == [cand |-> PngCand(0), len |-> 0]
Encoded(img, c) == [cand |-> c, len |-> img.size[c]]

\* ------------------------------------------------------------- exceptions
RetryCodes == {"504", "503", "502", "500", "429"}
NoExc == [src |-> "none", toks |-> {}, inner |-> "none"]
Exc(src, toks) == [src |-> src, toks |-> toks, inner |-> "none"]

\* mutant: a decoding error is swallowed
open_image_raises_swallowed(original_bytes) == FALSE

\* _open_image: Image.open raises on bytes that are no image
open_image_raises(original_bytes) == ~original_bytes.ok

encode_jpeg(original_bytes, max_side, quality) ==
    Encoded(original_bytes, JpegCand(max_side, quality))

encode_png(original_bytes, max_side) ==
    Encoded(original_bytes, PngCand(max_side))

\* fit_under_telegraph_limit: the loop over the tighter JPEG settings; the
\* result is the first one that fits, or the last one encoded
RECURSIVE TighterLoop(_, _)
TighterLoop(original_bytes, i) ==
    LET jpeg == encode_jpeg(original_bytes, 1400, TighterQualities[i])
    IN IF jpeg.len <= TELEGRAPH_MAX_BYTES \/ i = Len(TighterQualities)
       THEN jpeg
       ELSE TighterLoop(original_bytes, i + 1)

\* mutant: the PNG is tried before the tighter JPEGs
fit_under_telegraph_limit_png_first(original_bytes) ==
    LET first == encode_jpeg(original_bytes, MAX_SIDE_PX, JPEG_QUALITY)
        jpeg == TighterLoop(original_bytes, 1)
        png == encode_png(original_bytes, 1200)
    IN IF first.len <= TELEGRAPH_MAX_BYTES THEN first
       ELSE IF png.len <= TELEGRAPH_MAX_BYTES THEN png
       ELSE jpeg

fit_under_telegraph_limit(original_bytes) ==
    LET first == encode_jpeg(original_bytes, MAX_SIDE_PX, JPEG_QUALITY)
        jpeg == TighterLoop(original_bytes, 1)
        png == encode_png(original_bytes, 1200)
    IN IF first.len <= TELEGRAPH_MAX_BYTES THEN first
       ELSE IF jpeg.len <= TELEGRAPH_MAX_BYTES THEN jpeg
       ELSE IF png.len <= TELEGRAPH_MAX_BYTES THEN png
       ELSE jpeg

\* ---------------------------------------------------------- provider replies
\* An HTTP response of imgbb: status, what the body parses to, and which of
\* the retry codes occur in the part of the body the error message quotes.
ImgbbResp(st, b, t) == [status |-> st, body |-> b, toks |-> t]
ImgbbResponses ==
    {ImgbbResp(200, "success_data", {}), ImgbbResp(200, "success_nodata", {}),
     ImgbbResp(200, "error", {}), ImgbbResp(200, "nonjson", {}),
     ImgbbResp(400, "error", {}), ImgbbResp(400, "error", {"500"}),
     ImgbbResp(429, "error", {}),
     ImgbbResp(503, "error", {}), ImgbbResp(503, "error", {"503"}),
     ImgbbResp(503, "nonjson", {"503"})}

\* the exception upload_to_imgbb raises for a response, NoExc when it returns
ImgbbResponseExc(resp) ==
    IF resp.body = "nonjson" THEN Exc("imgbb_non_json", {"ne-JSON"} \cup resp.toks)
    ELSE IF resp.status # 200 \/ resp.body = "error" THEN Exc("imgbb_error", resp.toks)
    ELSE IF resp.body = "success_nodata" THEN Exc("KeyError", {})
    ELSE NoExc

\* exceptions of the HTTP client: a timeout has an empty message
TransportExcs == {Exc("TimeoutError", {}), Exc("ClientError", {"Client"})}

TelegraphBodies == {"nonjson", "list_src", "other"}
TelegraphResponses == {[status |-> st, body |-> b] : st \in {200, 503}, b \in TelegraphBodies}

TelegraphResponseExc(resp) ==
    IF resp.body = "nonjson" THEN Exc("telegraph_non_json", {})
    ELSE IF resp.status # 200 THEN Exc("telegraph_http", {})
    ELSE IF resp.body # "list_src" THEN Exc("telegraph_strange", {})
    ELSE NoExc

\* line 116: the retry decision reads the message text ("ne-JSON" stands for
\* the Cyrillic marker of the non-JSON error message of line 98)
Retryable(e) ==
    \/ e.toks \cap RetryCodes # {}
    \/ "ne-JSON" \in e.toks
    \/ "Client" \in e.toks

\* line 122: the error the retry wrapper raises quotes the last exception
RetriesFailed(last) ==
    [src |-> "imgbb_retries_failed", toks |-> last.toks, inner |-> last.src]

\* ------------------------------------------------------------------- state
VARIABLES
    app,            \* "init", "running" or "crashed"
    env,            \* which environment variables are set
    pending_image,  \* context.user_data["pending_image"], NoImage when absent
    upd,            \* the update being handled (or the last one handled)
    arrival,        \* the image that update delivered, and whether the slot
                    \* was filled when the update arrived
    pc,             \* position of the handler in progress, "idle" between updates
    caller,         \* who called upload_with_retries_imgbb
    pending,        \* handle_id: local pending
    the_id,         \* handle_id: local the_id
    fitted,         \* handle_id: local fitted_bytes (its cand.fmt is ext)
    image_bytes,    \* upload_with_retries_imgbb: argument
    name,           \* upload_with_retries_imgbb: argument
    max_attempts,   \* upload_with_retries_imgbb: argument
    attempt,        \* upload_with_retries_imgbb: local
    last_exc,       \* upload_with_retries_imgbb: local
    exc,            \* the exception being propagated, NoExc when none
    replies,        \* replies sent while handling the current update
    calls,          \* provider calls made while handling the current update
    sleeps,         \* asyncio.sleep delays of the current retry call
    log_warn        \* exception logged by handle_id at line 237

session == <<pending_image, upd, arrival>>
id_locals == <<pending, the_id, fitted>>
retry_locals == <<image_bytes, name, max_attempts, attempt, last_exc>>
observed == <<replies, calls, sleeps, log_warn>>
vars == <<app, env, pending_image, upd, arrival, pc, caller, pending, the_id, fitted,
          image_bytes, name, max_attempts, attempt, last_exc, exc,
          replies, calls, sleeps, log_warn>>

NoName == [id |-> NoId, ext |-> "none"]
FileName(id, ext) == [id |-> id, ext |-> ext]

\* a reply: its kind, the identifier and extension it shows, and the
\* exceptions its text quotes
Reply(kind, id, ext, es) == [kind |-> kind, id |-> id, ext |-> ext, errs |-> es]
Update(kind, text) == [kind |-> kind, text |-> text]
Arrival(img, slot) == [img |-> img, had |-> slot.len # 0]
Call(prov, bytes, nm) ==
    [prov |-> prov, bytes |-> bytes, name |-> nm, status |-> 0, exc |-> NoExc,
     done |-> FALSE]

\* the record of the call in flight, completed with its outcome
Completed(cs, st, e) ==
    [cs EXCEPT ![Len(cs)] = [@ EXCEPT !.status = st, !.exc = e, !.done = TRUE]]

LocalsInit ==
    /\ pending = NoImage /\ the_id = NoId /\ fitted = NoBytes
    /\ image_bytes = NoBytes /\ name = NoName /\ max_attempts = 0
    /\ attempt = 0 /\ last_exc = NoExc /\ exc = NoExc

\* a handler returns: its locals are gone
LocalsGone ==
    /\ pending' = NoImage /\ the_id' = NoId /\ fitted' = NoBytes
    /\ image_bytes' = NoBytes /\ name' = NoName /\ max_attempts' = 0
    /\ attempt' = 0 /\ last_exc' = NoExc /\ exc' = NoExc

\* a new update starts: what was observed of the previous one is dropped
Fresh(new_replies) ==
    /\ replies' = new_replies
    /\ calls' = <<>>
    /\ sleeps' = <<>>
    /\ log_warn' = NoExc

Init ==
    /\ app = "init"
    /\ env \in [BOT_TOKEN : BOOLEAN, IMGBB_API_KEY : BOOLEAN]
    /\ pending_image = NoImage
    /\ upd = Update("none", <<>>)
    /\ arrival = Arrival(NoImage, NoImage)
    /\ pc = "idle"
    /\ caller = "handle_id"
    /\ LocalsInit
    /\ replies = <<>> /\ calls = <<>> /\ sleeps = <<>> /\ log_warn = NoExc

\* mutant: BOT_TOKEN is not checked
StartupOutcome_unchecked(e) == "running"

\* lines 27-30
StartupOutcome(e) == IF e.BOT_TOKEN THEN "running" ELSE "crashed"

\* lines 27-30: a missing BOT_TOKEN stops the process, a missing
\* IMGBB_API_KEY only logs a warning
Startup ==
    /\ app = "init"
    /\ app' = StartupOutcome(env)
    /\ UNCHANGED <<env, session, pc, caller, id_locals, retry_locals, exc, observed>>

Ready == app = "running" /\ pc = "idle" /\ caller = "handle_id"

start ==
    /\ Ready
    /\ upd' = Update("start", <<>>)
    /\ arrival' = Arrival(NoImage, pending_image)
    /\ Fresh(<<Reply("start", NoId, "none", {})>>)
    /\ UNCHANGED <<app, env, pending_image, pc, caller, id_locals, retry_locals, exc>>

\* mutant: cancel does not clear the slot
cancel_pop_forgotten(slot) == slot

\* line 178
cancel_pop(slot) == NoImage

cancel ==
    /\ Ready
    /\ upd' = Update("cancel", <<>>)
    /\ arrival' = Arrival(NoImage, pending_image)
    /\ pending_image' = cancel_pop(pending_image)
    /\ Fresh(<<Reply("cancelled", NoId, "none", {})>>)
    /\ UNCHANGED <<app, env, pc, caller, id_locals, retry_locals, exc>>

\* mutant: the input ceiling is not enforced
TooBigInput_unchecked(original_bytes) == FALSE

\* line 199
TooBigInput(original_bytes) == original_bytes.len > IMGBB_MAX_BYTES

\* mutant: an image already pending is kept
store_pending_keeps_first(slot, original_bytes) ==
    IF slot.len # 0 THEN slot ELSE original_bytes

\* line 203: context.user_data["pending_image"] = bio.getvalue()
store_pending(slot, original_bytes) == original_bytes

\* handle_image: the filters of build_app pass photos and image documents
\* only, so tg_file is set; the download may fail, which ends the handler
handle_image ==
    /\ Ready
    /\ upd' = Update("image", <<>>)
    /\ \E img \in InputImages \cup {NoImage} :
        /\ arrival' = Arrival(img, pending_image)
        /\ IF img = NoImage        \* get_file or download_to_memory raised
           THEN /\ Fresh(<<>>)
                /\ UNCHANGED pending_image
           ELSE IF TooBigInput(img)
           THEN /\ Fresh(<<Reply("too_big", NoId, "none", {})>>)
                /\ UNCHANGED pending_image
           ELSE /\ pending_image' = store_pending(pending_image, img)
                /\ Fresh(<<Reply("image_received", NoId, "none", {})>>)
    /\ UNCHANGED <<app, env, pc, caller, id_locals, retry_locals, exc>>

\* ------------------------------------------------- upload_with_retries_imgbb
\* mutant: the loop condition is reversed
MoreAttempts_reversed(n, limit) == n > limit

\* line 108
MoreAttempts(n, limit) == n < limit

\* mutant: the classification is used the wrong way round
GiveUp_inverted(n, limit, e) == n >= limit \/ Retryable(e)

\* mutant: the classification is ignored
GiveUp_unclassified(n, limit, e) == n >= limit

\* line 117: stop retrying
GiveUp(n, limit, e) == n >= limit \/ ~Retryable(e)

\* mutant: a constant delay
Backoff_constant(n) == BACKOFF_BASE_S

\* line 119
Backoff(n) == BACKOFF_BASE_S * n

\* lines 108-112: the loop head and the call of upload_to_imgbb; a loop that
\* ends without a break falls through to the raise of line 122
retry_loop ==
    /\ pc = "retry_loop"
    /\ IF MoreAttempts(attempt, max_attempts)
       THEN /\ attempt' = attempt + 1
            /\ calls' = Append(calls, Call("imgbb", image_bytes, name))
            /\ pc' = "imgbb"
            /\ UNCHANGED exc
       ELSE /\ exc' = RetriesFailed(last_exc)
            /\ pc' = "retry_raised"
            /\ UNCHANGED <<attempt, calls>>
    /\ UNCHANGED <<app, env, session, caller, id_locals, image_bytes, name,
                   max_attempts, last_exc, replies, sleeps, log_warn>>

\* lines 83-102: one attempt.  Without an API key nothing is sent.
upload_to_imgbb ==
    /\ pc = "imgbb"
    /\ \E out \in TransportExcs \cup ImgbbResponses :
        LET is_resp == out \in ImgbbResponses
            e == IF ~env.IMGBB_API_KEY THEN Exc("no_api_key", {})
                 ELSE IF is_resp THEN ImgbbResponseExc(out)
                 ELSE out
            st == IF env.IMGBB_API_KEY /\ is_resp THEN out.status ELSE 0
        IN /\ exc' = e
           /\ calls' = Completed(calls, st, e)
           /\ pc' = IF e = NoExc THEN "retry_returned" ELSE "imgbb_raised"
    /\ UNCHANGED <<app, env, session, caller, id_locals, retry_locals,
                   replies, sleeps, log_warn>>

\* lines 113-122: the except clause; break leads to the raise of line 122
retry_except ==
    /\ pc = "imgbb_raised"
    /\ last_exc' = exc
    /\ IF GiveUp(attempt, max_attempts, exc)
       THEN /\ exc' = RetriesFailed(exc)
            /\ pc' = "retry_raised"
            /\ UNCHANGED sleeps
       ELSE /\ sleeps' = Append(sleeps, Backoff(attempt))
            /\ exc' = NoExc
            /\ pc' = "retry_loop"
    /\ UNCHANGED <<app, env, session, caller, id_locals, image_bytes, name,
                   max_attempts, attempt, replies, calls, log_warn>>

\* ------------------------------------------------------------------ handle_id
\* mutant: a text is handled as an identifier without a pending image
NotPending_ignored(slot) == FALSE

\* line 212: None and empty bytes are both falsy
NotPending(slot) == slot.len = 0

\* lines 211-220
handle_id ==
    /\ Ready
    /\ \E text \in Texts :
        /\ upd' = Update("text", text)
        /\ arrival' = Arrival(NoImage, pending_image)
        /\ IF NotPending(pending_image)
           THEN /\ Fresh(<<>>)
                /\ UNCHANGED <<pc, pending, the_id>>
           ELSE IF sanitize_id(text) = NoId
           THEN /\ Fresh(<<Reply("bad_id", NoId, "none", {})>>)
                /\ UNCHANGED <<pc, pending, the_id>>
           ELSE /\ pending' = pending_image
                /\ the_id' = sanitize_id(text)
                /\ Fresh(<<Reply("loading", NoId, "none", {})>>)
                /\ pc' = "primary"
    /\ UNCHANGED <<app, env, pending_image, caller, fitted, retry_locals, exc>>

\* line 225
TooBigForImgbb(jpeg_bytes) == jpeg_bytes.len > IMGBB_MAX_BYTES

\* mutant: the fitted file is compared with the wrong ceiling
TooBigForTelegraph_wrong_limit(fitted_bytes) == fitted_bytes.len > IMGBB_MAX_BYTES

\* line 242
TooBigForTelegraph(fitted_bytes) == fitted_bytes.len > TELEGRAPH_MAX_BYTES

\* lines 223-227 and, when encoding raises, 236-237
handle_id_primary ==
    /\ pc = "primary"
    /\ LET jpeg_bytes == encode_jpeg(pending, MAX_SIDE_PX, JPEG_QUALITY)
       IN IF open_image_raises(pending)
          THEN /\ log_warn' = Exc("decode_error", {})
               /\ pc' = "fallback"
               /\ UNCHANGED retry_locals
          ELSE IF TooBigForImgbb(jpeg_bytes)
          THEN /\ log_warn' = Exc("jpeg_too_big", {})
               /\ pc' = "fallback"
               /\ UNCHANGED retry_locals
          ELSE /\ image_bytes' = jpeg_bytes
               /\ name' = FileName(the_id, "jpg")
               /\ max_attempts' = HANDLE_ID_MAX_ATTEMPTS
               /\ attempt' = 0
               /\ last_exc' = NoExc
               /\ pc' = "retry_loop"
               /\ UNCHANGED log_warn
    /\ UNCHANGED <<app, env, session, caller, id_locals, exc, replies, calls, sleeps>>

\* mutant: the slot is not cleared
pop_pending_forgotten(slot) == slot

\* what a pop of the slot leaves (lines 228, 245, 252)
pop_pending(slot) == NoImage

\* mutant: the return of line 235 is missing
primary_ok_next_no_return == "fallback"

\* line 235: return
primary_ok_next == "idle"

\* lines 228-235
handle_id_primary_ok ==
    /\ pc = "retry_returned" /\ caller = "handle_id"
    /\ pending_image' = pop_pending(pending_image)
    /\ replies' = Append(replies, Reply("imgbb_ok", the_id, "jpg", {}))
    /\ LocalsGone
    /\ pc' = primary_ok_next
    /\ UNCHANGED <<app, env, upd, arrival, caller, calls, sleeps, log_warn>>

\* lines 236-237
handle_id_primary_failed ==
    /\ pc = "retry_raised" /\ caller = "handle_id"
    /\ log_warn' = exc
    /\ exc' = NoExc
    /\ pc' = "fallback"
    /\ UNCHANGED <<app, env, session, caller, id_locals, retry_locals,
                   replies, calls, sleeps>>

\* mutant: the reply quotes the primary failure as well
FailureReplyErr_both(e, logged) == {e, logged}

\* the text of the failure reply of line 253 quotes this exception
FailureReplyErr(e, logged) == {e}

\* lines 251-253
Failure(e) ==
    /\ pending_image' = pop_pending(pending_image)
    /\ replies' = Append(replies, Reply("failed", NoId, "none", FailureReplyErr(e, log_warn)))
    /\ LocalsGone
    /\ pc' = "idle"

TelegraphFileName(ext) == [id |-> <<"f", "i", "l", "e">>, ext |-> ext]

\* lines 240-244 and, when fitting raises, 251-253
handle_id_fallback ==
    /\ pc = "fallback"
    /\ LET fitted_bytes == fit_under_telegraph_limit(pending)
       IN IF open_image_raises(pending)
          THEN Failure(Exc("decode_error", {})) /\ UNCHANGED calls
          ELSE IF TooBigForTelegraph(fitted_bytes)
          THEN Failure(Exc("no_fit", {})) /\ UNCHANGED calls
          ELSE /\ fitted' = fitted_bytes
               /\ calls' = Append(calls, Call("telegraph", fitted_bytes,
                                              TelegraphFileName(fitted_bytes.cand.fmt)))
               /\ pc' = "telegraph"
               /\ UNCHANGED <<pending_image, pending, the_id, retry_locals, exc, replies>>
    /\ UNCHANGED <<app, env, upd, arrival, caller, sleeps, log_warn>>

\* lines 125-150
upload_to_telegraph ==
    /\ pc = "telegraph"
    /\ \E out \in {Exc("TimeoutError", {})} \cup TelegraphResponses :
        LET is_resp == out \in TelegraphResponses
            e == IF is_resp THEN TelegraphResponseExc(out) ELSE out
        IN /\ exc' = e
           /\ calls' = Completed(calls, IF is_resp THEN out.status ELSE 0, e)
           /\ pc' = IF e = NoExc THEN "telegraph_returned" ELSE "telegraph_raised"
    /\ UNCHANGED <<app, env, session, caller, id_locals, retry_locals,
                   replies, sleeps, log_warn>>

\* lines 245-250
handle_id_fallback_ok ==
    /\ pc = "telegraph_returned"
    /\ pending_image' = pop_pending(pending_image)
    /\ replies' = Append(replies, Reply("telegraph_ok", the_id, fitted.cand.fmt, {}))
    /\ LocalsGone
    /\ pc' = "idle"
    /\ UNCHANGED <<app, env, upd, arrival, caller, calls, sleeps, log_warn>>

\* lines 251-253
handle_id_fallback_failed ==
    /\ pc = "telegraph_raised"
    /\ Failure(exc)
    /\ UNCHANGED <<app, env, upd, arrival, caller, calls, sleeps, log_warn>>

Next ==
    \/ Startup
    \/ start
    \/ cancel
    \/ handle_image
    \/ handle_id
    \/ handle_id_primary
    \/ retry_loop
    \/ upload_to_imgbb
    \/ retry_except
    \/ handle_id_primary_ok
    \/ handle_id_primary_failed
    \/ handle_id_fallback
    \/ upload_to_telegraph
    \/ handle_id_fallback_ok
    \/ handle_id_fallback_failed

Spec == Init /\ [][Next]_vars

\* the steps of a handle_id that has accepted an identifier.  The event loop
\* resumes the coroutine whenever it can go on, and a provider call ends with
\* an answer or an exception within the timeout given to session.post
\* (lines 92 and 134).
HandlerStep ==
    \/ handle_id_primary
    \/ retry_loop
    \/ upload_to_imgbb
    \/ retry_except
    \/ handle_id_primary_ok
    \/ handle_id_primary_failed
    \/ handle_id_fallback
    \/ upload_to_telegraph
    \/ handle_id_fallback_ok
    \/ handle_id_fallback_failed

SpecFair == Spec /\ WF_vars(HandlerStep)

\* ------------------------------------------- upload_with_retries_imgbb alone
\* The retry wrapper called on its own, for every max_attempts up to
\* MaxAttempts, against a provider that answers in any way.
HarnessBytes == {[cand |-> PrimaryCand, len |-> n] : n \in PrimarySizes}

InitRetry ==
    /\ app = "running"
    /\ env \in [BOT_TOKEN : {TRUE}, IMGBB_API_KEY : BOOLEAN]
    /\ pending_image = NoImage
    /\ upd = Update("none", <<>>)
    /\ arrival = Arrival(NoImage, NoImage)
    /\ pc = "retry_loop"
    /\ caller = "harness"
    /\ pending = NoImage /\ the_id = NoId /\ fitted = NoBytes
    /\ image_bytes \in HarnessBytes
    /\ name = FileName(<<"a", "a">>, "jpg")
    /\ max_attempts \in 0..MaxAttempts
    /\ attempt = 0 /\ last_exc = NoExc /\ exc = NoExc
    /\ replies = <<>> /\ calls = <<>> /\ sleeps = <<>> /\ log_warn = NoExc

NextRetry ==
    \/ retry_loop
    \/ upload_to_imgbb
    \/ retry_except

SpecRetry == InitRetry /\ [][NextRetry]_vars

\* ------------------------------------------ updates dispatched concurrently
\* build_app registers the handlers on an Application built with the
\* defaults, which handles one update at a time (Spec).  An Application that
\* dispatches updates concurrently runs the same handlers, and another update
\* of the session can then be handled while handle_id is suspended in the
\* await of a provider call (lines 227 and 244).  The handlers are the ones
\* above; at most MaxInFlight such updates are handled per provider call
\* sequence, and the image one of them stores is drawn from InFlightImages.
MaxInFlight == 1
InFlightKinds == {"cancelled", "image_received"}
IsInFlightReply(r) == r.kind \in InFlightKinds
InFlightReplies == SelectSeq(replies, IsInFlightReply)
InFlightImages ==
    {[len |-> IMGBB_MAX_BYTES, ok |-> TRUE, size |-> [c \in Cands |-> TELEGRAPH_MAX_BYTES]]}

\* handle_id is suspended in session.post of a provider call
InFlight ==
    /\ app = "running"
    /\ caller = "handle_id"
    /\ pc \in {"imgbb", "telegraph"}
    /\ Len(InFlightReplies) < MaxInFlight

\* cancel, handled while handle_id awaits
cancel_in_flight ==
    /\ InFlight
    /\ pending_image' = cancel_pop(pending_image)
    /\ replies' = Append(replies, Reply("cancelled", NoId, "none", {}))
    /\ UNCHANGED <<app, env, upd, arrival, pc, caller, id_locals, retry_locals,
                   exc, calls, sleeps, log_warn>>

\* handle_image storing an image, handled while handle_id awaits
handle_image_in_flight ==
    /\ InFlight
    /\ \E img \in InFlightImages :
        /\ ~TooBigInput(img)
        /\ pending_image' = store_pending(pending_image, img)
    /\ replies' = Append(replies, Reply("image_received", NoId, "none", {}))
    /\ UNCHANGED <<app, env, upd, arrival, pc, caller, id_locals, retry_locals,
                   exc, calls, sleeps, log_warn>>

NextConcurrent ==
    \/ Next
    \/ cancel_in_flight
    \/ handle_image_in_flight

SpecConcurrent == Init /\ [][NextConcurrent]_vars

\* ===================================================================== claims
IsImgbb(c) == c.prov = "imgbb"
IsTelegraph(c) == c.prov = "telegraph"
ImgbbCalls == SelectSeq(calls, IsImgbb)
TelegraphCalls == SelectSeq(calls, IsTelegraph)
TerminalKinds == {"imgbb_ok", "telegraph_ok", "failed"}
HasTerminalReply == \E i \in 1..Len(replies) : replies[i].kind \in TerminalKinds
LastReply == replies[Len(replies)]
InRetryCall == pc \in {"retry_loop", "imgbb", "imgbb_raised", "retry_returned", "retry_raised"}

\* the state of the session as the specification names it
SessionState ==
    IF pc # "idle" THEN "Uploading"
    ELSE IF NotPending(pending_image) THEN "AwaitingImage"
    ELSE "AwaitingIdentifier"

\* C1: every payload handle_id passes to upload_with_retries_imgbb, and every
\* payload that reaches upload_to_imgbb, has at most IMGBB_MAX_BYTES bytes;
\* every payload passed to upload_to_telegraph has at most
\* TELEGRAPH_MAX_BYTES bytes.
C1_PayloadWithinCeiling ==
    /\ (caller = "handle_id" /\ InRetryCall) => image_bytes.len <= 32 * 1024 * 1024
    /\ \A i \in 1..Len(calls) :
        /\ IsImgbb(calls[i]) => calls[i].bytes.len <= 32 * 1024 * 1024
        /\ IsTelegraph(calls[i]) => calls[i].bytes.len <= 5 * 1024 * 1024

\* C1 witness: imgbb was sent a JPEG of exactly 32 MiB, every JPEG candidate
\* was too big for Telegraph, and Telegraph was sent the PNG of exactly 5 MiB
C1_Witness ==
    /\ Len(calls) >= 2
    /\ IsImgbb(calls[1]) /\ calls[1].bytes.len = 32 * 1024 * 1024
    /\ IsTelegraph(calls[Len(calls)])
    /\ calls[Len(calls)].bytes.cand.fmt = "png"
    /\ calls[Len(calls)].bytes.len = 5 * 1024 * 1024

\* C2: when a terminal reply (primary success, fallback success or failure)
\* has been sent, the pending_image slot is empty and the session is in
\* AwaitingImage.
C2_DoneClearsPending ==
    HasTerminalReply =>
        /\ pending_image = NoImage
        /\ SessionState = "AwaitingImage"
        /\ LastReply.kind \in TerminalKinds

\* C2 witness: a failure reply after both providers were tried
C2_Witness ==
    /\ HasTerminalReply
    /\ LastReply.kind = "failed"
    /\ Len(ImgbbCalls) = 2
    /\ Len(TelegraphCalls) = 1
    /\ pending_image = NoImage

\* what ID_RE accepts, stated on the text itself
MatchesIdPattern(text) ==
    LET t == Strip(text)
    IN Len(t) \in 2..64 /\ \A i \in 1..Len(t) : t[i] \in IdChars

\* C3: a text that is no valid identifier, arriving while an image is
\* pending, gets the error reply and nothing else: no provider call, the
\* handler is over, and the slot holds the same image; and whenever an
\* identifier is being processed, the image being uploaded is the one in the
\* slot, every payload being an encoding of it.
C3_BadIdKeepsPending ==
    /\ [][(Ready /\ ~NotPending(pending_image) /\ upd'.kind = "text"
             /\ ~MatchesIdPattern(upd'.text))
          => (/\ replies' = <<Reply("bad_id", NoId, "none", {})>>
              /\ calls' = <<>>
              /\ pc' = "idle"
              /\ pending_image' = pending_image
              /\ pending' = NoImage)]_vars
    /\ [](pc # "idle" =>
            /\ pending = pending_image
            /\ ~NotPending(pending)
            /\ \A i \in 1..Len(calls) :
                 calls[i].bytes = Encoded(pending_image, calls[i].bytes.cand))

\* C3 witness: the text "a!" was rejected and the image is still pending
C3_Witness ==
    /\ upd = Update("text", <<"a", "!">>)
    /\ replies = <<Reply("bad_id", NoId, "none", {})>>
    /\ SessionState = "AwaitingIdentifier"
    /\ calls = <<>>

\* C4: a step that handles cancel ends with an empty slot, and a text
\* handled while the slot is empty causes no reply and no provider call and
\* leaves the slot empty.
C4_CancelDiscards ==
    [][/\ (Ready /\ upd'.kind = "cancel") =>
            (pending_image' = NoImage /\ pc' = "idle")
       /\ (Ready /\ pending_image = NoImage /\ upd'.kind = "text") =>
            (/\ replies' = <<>> /\ calls' = <<>>
             /\ pc' = "idle" /\ pending_image' = NoImage)]_vars

\* C4 witness: cancel has been handled and the session is in AwaitingImage
C4_Witness ==
    /\ upd.kind = "cancel"
    /\ replies = <<Reply("cancelled", NoId, "none", {})>>
    /\ SessionState = "AwaitingImage"

\* images handle_image stores
StoredImages == {img \in InputImages : img.len <= 32 * 1024 * 1024}
AcceptedId == Strip(upd.text)

\* the first two parts of C5: an identifier is being processed only for an
\* image handle_image stored, and a provider is called only while a valid
\* identifier is being processed, after the reply that acknowledges it
C5_ImageThenIdThenUpload ==
    /\ pc # "idle" =>
        /\ pending \in StoredImages
        /\ upd.kind = "text" /\ MatchesIdPattern(upd.text)
        /\ the_id = AcceptedId
    /\ calls # <<>> =>
        /\ upd.kind = "text" /\ MatchesIdPattern(upd.text)
        /\ replies[1].kind = "loading"
        /\ \A i \in 1..Len(calls) : IsImgbb(calls[i]) => calls[i].name.id = AcceptedId

PrimaryBefore(i) == \E j \in 1..(i - 1) : IsImgbb(calls[j]) /\ calls[j].name.id = AcceptedId

\* C5 as claimed: image, then identifier, then upload, and every Telegraph
\* upload is preceded by an imgbb upload attempt for the same identifier.
C5_Original ==
    /\ C5_ImageThenIdThenUpload
    /\ \A i \in 1..Len(calls) : IsTelegraph(calls[i]) => PrimaryBefore(i)

\* C5 amended: image, then identifier, then upload, and every Telegraph
\* upload is preceded by an imgbb upload attempt for the same identifier,
\* unless the primary JPEG was larger than IMGBB_MAX_BYTES, in which case no
\* imgbb attempt is made at all.
C5_Ordering ==
    /\ C5_ImageThenIdThenUpload
    /\ \A i \in 1..Len(calls) :
        IsTelegraph(calls[i]) =>
            \/ PrimaryBefore(i)
            \/ log_warn = Exc("jpeg_too_big", {}) /\ ImgbbCalls = <<>>

\* C5 witness: the Telegraph upload is in flight after two imgbb attempts
C5_Witness ==
    /\ pc = "telegraph"
    /\ Len(calls) = 3
    /\ IsImgbb(calls[1]) /\ IsImgbb(calls[2]) /\ IsTelegraph(calls[3])
    /\ calls[1].name.id = AcceptedId

AllAttemptsRetryable ==
    \A i \in 1..Len(calls) : calls[i].done /\ calls[i].exc # NoExc /\ Retryable(calls[i].exc)
RetryCallOver == pc \in {"retry_raised", "retry_returned"}

\* C6: the delay after attempt k is 2 * k seconds, so the delays never
\* decrease; and when upload_with_retries_imgbb is over and every attempt
\* failed with a retryable error, it has raised after exactly max_attempts
\* calls of upload_to_imgbb, with a delay between each two of them.
C6_RetryBound ==
    /\ \A k \in 1..Len(sleeps) : sleeps[k] = 2 * k
    /\ \A k \in 1..(Len(sleeps) - 1) : sleeps[k] <= sleeps[k + 1]
    /\ (RetryCallOver /\ AllAttemptsRetryable) =>
        /\ pc = "retry_raised"
        /\ Len(calls) = max_attempts
        /\ Len(sleeps) = (IF max_attempts = 0 THEN 0 ELSE max_attempts - 1)

\* C6 witness: three retryable failures with max_attempts = 3
C6_Witness ==
    /\ pc = "retry_raised"
    /\ max_attempts = 3
    /\ Len(calls) = 3
    /\ AllAttemptsRetryable
    /\ sleeps = <<2, 4>>

\* C7: an attempt that failed with an error not classified retryable is the
\* last attempt, no delay follows it, and the call is raising.
C7_NonRetryableStops ==
    \A i \in 1..Len(calls) :
        (IsImgbb(calls[i]) /\ calls[i].done /\ calls[i].exc # NoExc
           /\ ~Retryable(calls[i].exc)) =>
            /\ i = Len(calls)
            /\ Len(sleeps) = i - 1
            /\ pc \in {"imgbb_raised", "retry_raised"}

\* C7 witness: the first of three allowed attempts failed non-retryably and
\* the call has raised
C7_Witness ==
    /\ pc = "retry_raised"
    /\ max_attempts = 3
    /\ Len(calls) = 1
    /\ calls[1].exc # NoExc /\ ~Retryable(calls[1].exc)
    /\ sleeps = <<>>

HandlerOver == pc = "idle" /\ upd.kind = "text" /\ HasTerminalReply
AllOf(cs, P(_)) == \A i \in 1..Len(cs) : P(cs[i])
FailedNonRetryably(c) == c.done /\ c.exc # NoExc /\ ~Retryable(c.exc)
Succeeded(c) == c.done /\ c.exc = NoExc
Failed(c) == c.done /\ c.exc # NoExc
Answered503(c) == c.done /\ c.status = 503

\* C8: when handle_id is over, every imgbb attempt it made failed
\* non-retryably and its Telegraph upload succeeded, the reply is the
\* fallback success and there was exactly one imgbb attempt and exactly one
\* Telegraph attempt.
C8_FallbackActivation ==
    (/\ HandlerOver
     /\ ImgbbCalls # <<>> /\ AllOf(ImgbbCalls, FailedNonRetryably)
     /\ TelegraphCalls # <<>> /\ AllOf(TelegraphCalls, Succeeded)) =>
        /\ LastReply.kind = "telegraph_ok"
        /\ LastReply.id = AcceptedId
        /\ Len(ImgbbCalls) = 1
        /\ Len(TelegraphCalls) = 1

\* C8 witness: one imgbb attempt answered 400, then Telegraph succeeded
C8_Witness ==
    /\ HandlerOver
    /\ Len(calls) = 2
    /\ IsImgbb(calls[1]) /\ calls[1].status = 400 /\ FailedNonRetryably(calls[1])
    /\ IsTelegraph(calls[2]) /\ Succeeded(calls[2])
    /\ LastReply.kind = "telegraph_ok"

All503 == HandlerOver /\ ImgbbCalls # <<>> /\ AllOf(ImgbbCalls, Answered503)

\* C9 as claimed: imgbb answering 503 every time is attempted three times,
\* then Telegraph is called, and its success gives the fallback reply.
C9_Original ==
    All503 =>
        /\ Len(ImgbbCalls) = 3
        /\ Len(TelegraphCalls) = 1
        /\ Succeeded(TelegraphCalls[1]) => LastReply.kind = "telegraph_ok"

RetryMarkers == {"504", "503", "502", "500", "429", "ne-JSON", "Client"}

\* C9 amended: imgbb answering 503 every time is attempted at most twice
\* (twice when the error message of the first answer holds a retry marker,
\* once when it does not); then Telegraph is called once, unless no candidate
\* fits under 5 MiB; and when Telegraph succeeds the reply is the fallback
\* success.
C9_TwoAttemptsThenFallback ==
    All503 =>
        /\ Len(ImgbbCalls) = (IF ImgbbCalls[1].exc.toks \cap RetryMarkers # {} THEN 2 ELSE 1)
        /\ \A i \in 1..Len(ImgbbCalls) : IsImgbb(calls[i])
        /\ \/ Len(TelegraphCalls) = 1
           \/ /\ TelegraphCalls = <<>>
              /\ LastReply = Reply("failed", NoId, "none", {Exc("no_fit", {})})
        /\ (TelegraphCalls # <<>> /\ Succeeded(TelegraphCalls[1])) =>
              (LastReply.kind = "telegraph_ok" /\ LastReply.id = AcceptedId)

\* C9 witness: two attempts answered 503, then the fallback reply
C9_Witness ==
    /\ All503
    /\ Len(ImgbbCalls) = 2
    /\ Len(TelegraphCalls) = 1
    /\ LastReply.kind = "telegraph_ok"

BothFailed ==
    /\ HandlerOver
    /\ ImgbbCalls # <<>> /\ AllOf(ImgbbCalls, Failed)
    /\ TelegraphCalls # <<>> /\ AllOf(TelegraphCalls, Failed)

PrimaryFailure == RetriesFailed(ImgbbCalls[Len(ImgbbCalls)].exc)
FallbackFailure == TelegraphCalls[1].exc

\* C10 as claimed: the failure reply quotes the primary failure and the
\* fallback failure.
C10_Original ==
    BothFailed =>
        /\ LastReply.kind = "failed"
        /\ {PrimaryFailure, FallbackFailure} \subseteq LastReply.errs

\* C10 amended: the failure reply quotes the fallback failure only; the
\* primary failure is what handle_id logged, and is not in the reply.
C10_ReplyQuotesFallbackOnly ==
    BothFailed =>
        /\ LastReply.kind = "failed"
        /\ LastReply.errs = {FallbackFailure}
        /\ log_warn = PrimaryFailure
        /\ PrimaryFailure \notin LastReply.errs

\* C10 witness: imgbb answered 400 and Telegraph answered 503
C10_Witness ==
    /\ BothFailed
    /\ Len(calls) = 2
    /\ calls[1].status = 400
    /\ calls[2].status = 503
    /\ LastReply.kind = "failed"

\* ------------------------------------------------------------------------ C11
\* the replies handle_id sends after the update handled in flight
RepliesAfterInFlight ==
    {i \in 1..Len(replies) :
        \E j \in 1..(i - 1) : IsInFlightReply(replies[j])}
HandledInFlight == upd.kind = "text" /\ InFlightReplies # <<>>
StoredInFlight ==
    /\ HandledInFlight
    /\ InFlightReplies[Len(InFlightReplies)].kind = "image_received"

ImageStored ==
    /\ pc = "idle" /\ upd.kind = "image"
    /\ replies = <<Reply("image_received", NoId, "none", {})>>
\* handle_id has accepted an identifier and not yet returned
Accepted == pc # "idle" /\ upd.kind = "text" /\ caller = "handle_id"
\* every upload made so far carries an encoding of img
UploadsAreOf(img) ==
    \A i \in 1..Len(calls) : calls[i].bytes = Encoded(img, calls[i].bytes.cand)

\* C12: the slot holds one image; after handle_image has accepted an image
\* the slot holds that image, whatever it held before; the slot changes in no
\* other way than by being emptied, and the identifier accepted next takes the
\* image of the slot and uploads encodings of that image only
C12_OnePendingImage ==
    /\ [](ImageStored => pending_image = arrival.img)
    /\ [][(pending_image' # pending_image) =>
               (ImageStored' \/ pending_image' = NoImage)]_vars
    /\ [][(pc = "idle" /\ pc' # "idle") => (pending' = pending_image)]_vars
    /\ [](Accepted => (pending # NoImage /\ UploadsAreOf(pending)))

\* an image has replaced another one
C12_Witness ==
    /\ ImageStored
    /\ arrival.had
    /\ pending_image = arrival.img

\* ------------------------------------------------------------------------ C13
\* handle_id went past the identifier check for this text message
IdAccepted ==
    /\ upd.kind = "text"
    /\ replies # <<>>
    /\ replies[1].kind = "loading"

\* C13: one accepted identifier gets at most two imgbb attempts and at most
\* one Telegraph attempt; when handle_id has returned from an accepted
\* identifier the image is gone from the slot, whatever the outcome; and a
\* text message that finds no pending image (so every text after a finished
\* upload, until a new image is stored) makes no provider call and is not
\* taken as an identifier
C13_OneAttemptPair ==
    /\ Len(ImgbbCalls) <= HANDLE_ID_MAX_ATTEMPTS
    /\ Len(TelegraphCalls) <= 1
    /\ (IdAccepted /\ pc = "idle") => pending_image = NoImage
    /\ (upd.kind = "text" /\ ~arrival.had) =>
            (calls = <<>> /\ replies = <<>> /\ pc = "idle")

\* the whole attempt pair was spent on one identifier: two imgbb attempts
\* lost to connection errors, then the one Telegraph attempt
C13_Witness ==
    /\ IdAccepted /\ pc = "idle"
    /\ Len(calls) = HANDLE_ID_MAX_ATTEMPTS + 1
    /\ \A i \in 1..HANDLE_ID_MAX_ATTEMPTS :
           IsImgbb(calls[i]) /\ calls[i].exc = Exc("ClientError", {"Client"})
    /\ IsTelegraph(calls[Len(calls)])
    /\ LastReply.kind = "telegraph_ok"

\* ------------------------------------------------------------------------ C14
\* the classification by HTTP status: 5xx and 429
StatusRetryable(st) == st = 429 \/ st \in 500..599
\* attempt i got an HTTP answer that upload_to_imgbb turned into an error, and
\* it was not the last attempt allowed
HttpFailureWithAttemptsLeft(i) ==
    /\ IsImgbb(calls[i]) /\ calls[i].done /\ calls[i].exc # NoExc
    /\ calls[i].status >= 400
    /\ i < max_attempts

\* C14: when upload_with_retries_imgbb is over, an attempt that failed with an
\* HTTP status and was not the last one allowed was followed by another
\* attempt exactly when its status is 5xx or 429, whatever the body held
C14_Original ==
    RetryCallOver =>
        \A i \in 1..Len(calls) :
            HttpFailureWithAttemptsLeft(i) =>
                ((i < Len(calls)) <=> StatusRetryable(calls[i].status))

\* ------------------------------------------------------------------------ C15
\* attempt i ran into the timeout of session.post, with attempts left
TimedOutWithAttemptsLeft(i) ==
    /\ IsImgbb(calls[i]) /\ calls[i].done
    /\ calls[i].exc.src = "TimeoutError"
    /\ i < max_attempts

\* C15: when upload_with_retries_imgbb is over, an attempt that timed out and
\* was not the last one allowed was followed by the backoff delay and by
\* another attempt
C15_Original ==
    RetryCallOver =>
        \A i \in 1..Len(calls) :
            TimedOutWithAttemptsLeft(i) => (i < Len(calls) /\ Len(sleeps) >= i)

\* ------------------------------------------------------------------------ C16
\* handle_id is working on pending bytes that are no image
WorkingOnCorrupt == Accepted /\ ~pending.ok
DecodeFailureReply == Reply("failed", NoId, "none", {Exc("decode_error", {})})

\* C16: while handle_id works on bytes that cannot be decoded it sends
\* nothing to imgbb or Telegraph, and it returns with the failure reply as its
\* one terminal reply, the slot empty and the session in AwaitingImage
C16_CorruptImageFails ==
    [][WorkingOnCorrupt =>
          /\ calls' = <<>>
          /\ pc' \in {pc, "fallback", "idle"}
          /\ (pc' = "idle") =>
                /\ replies' = <<Reply("loading", NoId, "none", {}), DecodeFailureReply>>
                /\ pending_image' = NoImage
                /\ SessionState' = "AwaitingImage"]_vars

\* the failure reply for bytes that are no image, with nothing sent
C16_Witness ==
    /\ pc = "idle" /\ upd.kind = "text"
    /\ HasTerminalReply
    /\ LastReply = DecodeFailureReply
    /\ calls = <<>>
    /\ pending_image = NoImage

\* ------------------------------------------------------------------------ C17
\* the candidates in the order the claim gives them
CandOrder ==
    <<JpegCand(1600, 75), JpegCand(1400, 70), JpegCand(1400, 65),
      JpegCand(1400, 60), JpegCand(1400, 55), PngCand(1200)>>
Fits(img, i) == img.size[CandOrder[i]] <= 5 * 1024 * 1024
\* the place of the first candidate that fits, 0 when none does
FirstFit(img) ==
    IF \E i \in 1..Len(CandOrder) : Fits(img, i)
    THEN CHOOSE i \in 1..Len(CandOrder) :
            Fits(img, i) /\ \A j \in 1..(i - 1) : ~Fits(img, j)
    ELSE 0
AtTelegraph == pc \in {"telegraph", "telegraph_returned", "telegraph_raised"}
NoFitReply == Reply("failed", NoId, "none", {Exc("no_fit", {})})

\* C17: what handle_id sends to Telegraph is the first candidate, in the
\* order JPEG 1600/75, JPEG 1400/70, /65, /60, /55, PNG 1200, that is at most
\* 5 MiB long; and when no candidate fits handle_id makes no Telegraph call
\* and returns with the failure reply
C17_FirstFitOrFailure ==
    /\ [](AtTelegraph =>
            /\ FirstFit(pending) # 0
            /\ fitted = Encoded(pending, CandOrder[FirstFit(pending)])
            /\ calls[Len(calls)].bytes = fitted)
    /\ []((Accepted /\ pending.ok /\ FirstFit(pending) = 0) => TelegraphCalls = <<>>)
    /\ [][(pc = "fallback" /\ pending.ok /\ FirstFit(pending) = 0 /\ pc' # pc) =>
              (pc' = "idle" /\ LastReply' = NoFitReply /\ calls' = calls)]_vars

\* the third tighter JPEG is sent although the PNG would fit as well
C17_Witness ==
    /\ pc = "telegraph"
    /\ fitted.cand = JpegCand(1400, 60)
    /\ pending.size[PngCand(1200)] <= 5 * 1024 * 1024
    /\ calls[Len(calls)].bytes = fitted

\* ------------------------------------------------------------------------ C18
Handling == app = "running"

\* C18: with BOT_TOKEN or IMGBB_API_KEY missing the process never gets to
\* handle images and identifiers
C18_Original ==
    (~env.BOT_TOKEN \/ ~env.IMGBB_API_KEY) => ~Handling

\* C18 amended: only a missing BOT_TOKEN stops the process.  With BOT_TOKEN
\* set the bot handles updates whether IMGBB_API_KEY is set or not, and
\* without the key every imgbb attempt fails before anything is sent.
C18_OnlyBotTokenIsFatal ==
    /\ ~env.BOT_TOKEN => ~Handling
    /\ (env.BOT_TOKEN /\ app # "init") => Handling
    /\ ~env.IMGBB_API_KEY =>
          \A i \in 1..Len(calls) :
              (IsImgbb(calls[i]) /\ calls[i].done) =>
                  (calls[i].exc = Exc("no_api_key", {}) /\ calls[i].status = 0)

\* the bot runs without the imgbb key and an upload attempt has failed on it
C18_Witness ==
    /\ Handling
    /\ ~env.IMGBB_API_KEY
    /\ calls # <<>>
    /\ calls[1].exc = Exc("no_api_key", {})

\* ------------------------------------------------------------------------ C19
\* handle_image has just been given an image above the input ceiling
OversizedArrived ==
    /\ pc = "idle" /\ upd.kind = "image"
    /\ arrival.img.len > 32 * 1024 * 1024
TooBigReply == Reply("too_big", NoId, "none", {})

\* C19: after an image above 32 MiB the reply is the rejection and the
\* session is in AwaitingImage, whatever it was in before
C19_Original ==
    OversizedArrived =>
        (replies = <<TooBigReply>> /\ SessionState = "AwaitingImage")

\* C19 amended: an image above 32 MiB is answered with the rejection and is
\* not stored; the slot is left as it was, so the session is in
\* AwaitingImage when no image was pending and stays in AwaitingIdentifier,
\* with the earlier image, when one was
C19_OversizedLeavesSlot ==
    /\ [](OversizedArrived =>
            /\ replies = <<TooBigReply>>
            /\ pending_image # arrival.img
            /\ SessionState =
                  (IF arrival.had THEN "AwaitingIdentifier" ELSE "AwaitingImage"))
    /\ [][OversizedArrived' => (pending_image' = pending_image)]_vars

\* an oversized image arrived while another image was pending
C19_Witness ==
    /\ OversizedArrived
    /\ arrival.had
    /\ replies = <<TooBigReply>>
    /\ SessionState = "AwaitingIdentifier"

\* ------------------------------------------------------------------------ C20
IsTerminal(r) == r.kind \in TerminalKinds
TerminalReplies == SelectSeq(replies, IsTerminal)

\* C20: a handle_id that has accepted an identifier returns, and when it has
\* returned it has sent exactly one terminal reply (imgbb success, Telegraph
\* success or failure), as its last reply; it never sends a second one
C20_TerminatesWithOneReply ==
    /\ [](Len(TerminalReplies) <= 1)
    /\ []((IdAccepted /\ pc = "idle") =>
            (Len(TerminalReplies) = 1 /\ IsTerminal(LastReply)))
    /\ Accepted ~> (IdAccepted /\ pc = "idle" /\ Len(TerminalReplies) = 1)

\* handle_id has returned after a second imgbb attempt that succeeded
C20_Witness ==
    /\ IdAccepted /\ pc = "idle"
    /\ TerminalReplies = <<Reply("imgbb_ok", AcceptedId, "jpg", {})>>
    /\ Len(calls) = 2
    /\ sleeps = <<BACKOFF_BASE_S>>

====
